---- MODULE Spec2Model ----
(***************************************************************************)
(* Model of the two command-line tools of the repository:                  *)
(*   fuchsia/binary_size_differ.py  (ComputePackageDiffs, main)            *)
(*   fuchsia/test_runner.py         (main)                                 *)
(* Each tool is a sequential program; its position is a program counter    *)
(* and every action is one statement (or one loop iteration) of the code.  *)
(* Collaborators outside the repository (file system, JSON reader, the     *)
(* deployment target, RunPackage, the test server) are an environment      *)
(* whose outcomes are chosen nondeterministically.                         *)
(***************************************************************************)
EXTENDS Integers, Sequences, FiniteSets, TLC

VARIABLES
  \* ---- binary_size_differ.py ----
  pc,                  \* position of main / ComputePackageDiffs
  main_result,         \* "running", "returned" or "raised" (exception left main)
  return_value,        \* value returned by main (-1 while none)
  test_completed,      \* local of main
  exc,                 \* pending exception inside the try block ("" when none)
  failed_at,           \* where the run's first exception was raised ("" when none)
  stdout,              \* what main's handler printed
  results_before,      \* the results file before the run
  results_file,        \* the results file now
  results_content,     \* <<report>> once json.dump completed, else << >>
  before_sizes,        \* the before snapshot, in insertion order
  after_sizes,         \* the after snapshot, package name -> sizes
  growth_compressed,   \* growth['compressed']
  growth_uncompressed, \* growth['uncompressed']
  status_code,         \* local of ComputePackageDiffs
  summary,             \* local of ComputePackageDiffs, a string as a list of pieces
  idx,                 \* index of the next package the for loop visits
  growth,              \* <<report>> once ComputePackageDiffs returned, else << >>
  \* ---- test_runner.py ----
  tr_pc,               \* position of main
  args,                \* the parsed command line
  child_args,          \* the child process's argument list
  test_concurrency,    \* local of main
  test_server,         \* "None" or "server"
  returncode,          \* local of main (-1 while unset)
  calls,               \* the collaborator calls made so far, in order
  tr_result,           \* "running", "returned" or "raised"
  tr_return            \* value returned by main (-1 while none)

dvars == <<pc, main_result, return_value, test_completed, exc, failed_at, stdout,
           results_before, results_file, results_content, before_sizes,
           after_sizes, growth_compressed, growth_uncompressed, status_code,
           summary, idx, growth>>
rvars == <<tr_pc, args, child_args, test_concurrency, test_server, returncode,
           calls, tr_result, tr_return>>
vars == <<dvars, rvars>>

-----------------------------------------------------------------------------
(* Bounds of the inputs *)

\* Largest number of packages in a snapshot.
MaxPackages == 3

PackagePool == <<"pkgA", "pkgB", "pkgC", "pkgD", "pkgE">>
Names == {PackagePool[i] : i \in 1..MaxPackages}

\* Sizes a package can have in the before and in the after snapshot.  The
\* compressed deltas they produce are 0, 12288, 13287, -1000, 11288 and 12287,
\* the uncompressed deltas 20000 and -20000.
BeforeValues == {[compressed |-> 1000, uncompressed |-> 20000],
                 [compressed |-> 2000, uncompressed |-> 60000]}
AfterValues == [compressed : {1000, 13288, 14287}, uncompressed : {40000}]

BeforeEntries == [name : Names, sizes : BeforeValues]

\* A dict keeps insertion order and has unique keys.
BeforeSnapshots ==
  UNION {{s \in [1..k -> BeforeEntries] :
            \A i, j \in 1..k : s[i].name = s[j].name => i = j} : k \in 0..MaxPackages}
AfterSnapshots == UNION {[K -> AfterValues] : K \in SUBSET Names}

Keys(snapshot) == {snapshot[i].name : i \in 1..Len(snapshot)}

-----------------------------------------------------------------------------
(* binary_size_differ.py: constants and string building *)

MAX_DELTA_BYTES == 12 * 1024
TRYBOT_DOC == "https://chromium.googlesource.com/chromium/src/+/main/docs/speed/binary_size/fuchsia_binary_size_trybot.md"

\* A string is modelled as the list of its pieces; a newline is a piece of its own.
NL == "\n"
BR == "<br>"

Digits == <<"0", "1", "2", "3", "4", "5", "6", "7", "8", "9">>

RECURSIVE NatToStr(_)
NatToStr(n) == IF n < 10 THEN Digits[n + 1]
               ELSE NatToStr(n \div 10) \o Digits[(n % 10) + 1]

\* '%d' % n
FormatD(n) == IF n < 0 THEN "-" \o NatToStr(-n) ELSE NatToStr(n)

\* 'Size check failed! The following package(s) are affected:\n'
HeaderText == <<"Size check failed! The following package(s) are affected:", NL>>

\* '- %s grew by %d bytes\n' % (package_name, delta)
GrewLine(package_name, delta) ==
  <<"- " \o package_name \o " grew by " \o FormatD(delta) \o " bytes", NL>>

\* '\nSee the following document for more information about this trybot:\n%s'
TrailerText ==
  <<NL, "See the following document for more information about this trybot:",
    NL, TRYBOT_DOC>>

\* summary.replace('\n', '<br>')
ReplaceNewlines(s) == [i \in 1..Len(s) |-> IF s[i] = NL THEN BR ELSE s[i]]

EmptyMap == [n \in {} |-> 0]

-----------------------------------------------------------------------------
(* binary_size_differ.py: ComputePackageDiffs *)

\* Variant: only checks that every package of the before snapshot is in the after one.
KeysEqual_subset(before, after) == Keys(before) \subseteq DOMAIN after

\* before_sizes.keys() == after_sizes.keys()
KeysEqual(before, after) == Keys(before) = DOMAIN after

\* after_sizes[package_name].compressed - before_sizes[package_name].compressed
CompressedDelta(before, after) == after.compressed - before.compressed

\* Variant: the uncompressed delta taken from the compressed fields.
UncompressedDelta_compressed(before, after) == after.compressed - before.compressed

\* after_sizes[package_name].uncompressed - before_sizes[package_name].uncompressed
UncompressedDelta(before, after) == after.uncompressed - before.uncompressed

\* Variant: strict comparison with the limit.
ExceedsLimit_strict(delta) == delta > MAX_DELTA_BYTES

\* growth['compressed'][package_name] >= _MAX_DELTA_BYTES
ExceedsLimit(delta) == delta >= MAX_DELTA_BYTES

\* if status_code == 1 and not summary: summary = 'Size check failed! ...\n'
WithHeader(status, text) == IF status = 1 /\ text = << >> THEN HeaderText ELSE text

\* Variant: the line replaces the summary instead of being appended to it.
AddGrewLine_assign(text, package_name, delta) == GrewLine(package_name, delta)

\* summary += '- %s grew by %d bytes\n' % (package_name, delta)
AddGrewLine(text, package_name, delta) == text \o GrewLine(package_name, delta)

\* The dictionary ComputePackageDiffs returns.
Report(compressed, uncompressed, status, text) ==
  [compressed        |-> compressed,
   uncompressed      |-> uncompressed,
   status_code       |-> status,
   summary           |-> ReplaceNewlines(text \o TrailerText),
   archive_filenames |-> << >>,
   links             |-> << >>]

\* Variant: test_completed is set only after the results were written.
TryBody_markLast == <<"compute", "open", "dump", "mark_completed">>

\* The statements of main's try block, in order.
TryBody == <<"compute", "mark_completed", "open", "dump">>

Following(stmt) ==
  LET i == CHOOSE k \in 1..Len(TryBody) : TryBody[k] = stmt
  IN  IF i = Len(TryBody) THEN "finally" ELSE TryBody[i + 1]

\* Variant: the two exit codes swapped.
ReturnValue_swapped(completed) == IF completed THEN 1 ELSE 0

\* return 0 if test_completed else 1
ReturnValue(completed) == IF completed THEN 0 ELSE 1

\* An exception raised outside the try block leaves main.
Raise(where) ==
  /\ main_result' = "raised"
  /\ failed_at' = where
  /\ pc' = "done"

\* An exception raised inside the try block goes to the except clause.
Throw(where, e) ==
  /\ exc' = e
  /\ failed_at' = where
  /\ pc' = "except"

\* if not os.path.isdir(args.before_dir) or not os.path.isdir(args.after_dir)
CheckDirs ==
  /\ pc = "check_dirs"
  /\ \E before_isdir, after_isdir \in BOOLEAN :
       IF ~before_isdir \/ ~after_isdir
       THEN Raise("dirs")
       ELSE /\ pc' = "check_before_file"
            /\ UNCHANGED <<main_result, failed_at>>
  /\ UNCHANGED <<return_value, test_completed, exc, stdout, results_before,
                 results_file, results_content, before_sizes, after_sizes,
                 growth_compressed, growth_uncompressed, status_code, summary,
                 idx, growth>>
  /\ UNCHANGED rvars

\* if not os.path.isfile(before_sizes_file)
CheckBeforeFile ==
  /\ pc = "check_before_file"
  /\ \E isfile \in BOOLEAN :
       IF ~isfile
       THEN Raise("before_file")
       ELSE /\ pc' = "check_after_file"
            /\ UNCHANGED <<main_result, failed_at>>
  /\ UNCHANGED <<return_value, test_completed, exc, stdout, results_before,
                 results_file, results_content, before_sizes, after_sizes,
                 growth_compressed, growth_uncompressed, status_code, summary,
                 idx, growth>>
  /\ UNCHANGED rvars

\* if not os.path.isfile(after_sizes_file); then test_completed = False; try:
CheckAfterFile ==
  /\ pc = "check_after_file"
  /\ \E isfile \in BOOLEAN :
       IF ~isfile
       THEN /\ Raise("after_file")
            /\ UNCHANGED test_completed
       ELSE /\ test_completed' = FALSE
            /\ pc' = TryBody[1]
            /\ UNCHANGED <<main_result, failed_at>>
  /\ UNCHANGED <<return_value, exc, stdout, results_before,
                 results_file, results_content, before_sizes, after_sizes,
                 growth_compressed, growth_uncompressed, status_code, summary,
                 idx, growth>>
  /\ UNCHANGED rvars

\* before_sizes = ReadPackageSizesJson(...); after_sizes = ReadPackageSizesJson(...)
ReadSizes ==
  /\ pc = "compute"
  /\ \/ /\ Throw("read", "ReadError")
        /\ UNCHANGED <<before_sizes, after_sizes>>
     \/ /\ \E before \in BeforeSnapshots, after \in AfterSnapshots :
             /\ before_sizes' = before
             /\ after_sizes' = after
        /\ pc' = "assert_keys"
        /\ UNCHANGED <<exc, failed_at>>
  /\ UNCHANGED <<main_result, return_value, test_completed, stdout, results_before,
                 results_file, results_content,
                 growth_compressed, growth_uncompressed, status_code, summary,
                 idx, growth>>
  /\ UNCHANGED rvars

\* assert before_sizes.keys() == after_sizes.keys(); growth = {...};
\* status_code = 0; summary = ''
AssertKeys ==
  /\ pc = "assert_keys"
  /\ IF KeysEqual(before_sizes, after_sizes)
     THEN /\ growth_compressed' = EmptyMap
          /\ growth_uncompressed' = EmptyMap
          /\ status_code' = 0
          /\ summary' = << >>
          /\ idx' = 1
          /\ pc' = "loop"
          /\ UNCHANGED <<exc, failed_at>>
     ELSE /\ Throw("assert", "AssertionError")
          /\ UNCHANGED <<growth_compressed, growth_uncompressed, status_code,
                         summary, idx>>
  /\ UNCHANGED <<main_result, return_value, test_completed, stdout, results_before,
                 results_file, results_content, before_sizes, after_sizes, growth>>
  /\ UNCHANGED rvars

\* One iteration of: for package_name in before_sizes
LoopStep ==
  /\ pc = "loop"
  /\ idx <= Len(before_sizes)
  /\ LET package_name == before_sizes[idx].name
     IN  IF package_name \notin DOMAIN after_sizes
         THEN /\ Throw("loop", "KeyError")
              /\ UNCHANGED <<growth_compressed, growth_uncompressed, status_code,
                             summary, idx>>
         ELSE LET before == before_sizes[idx].sizes
                  after == after_sizes[package_name]
                  delta == CompressedDelta(before, after)
              IN  /\ growth_compressed' =
                       (package_name :> delta) @@ growth_compressed
                  /\ growth_uncompressed' =
                       (package_name :> UncompressedDelta(before, after))
                         @@ growth_uncompressed
                  /\ IF ExceedsLimit(delta)
                     THEN /\ summary' = AddGrewLine(WithHeader(status_code, summary),
                                                    package_name, delta)
                          /\ status_code' = 1
                     ELSE UNCHANGED <<summary, status_code>>
                  /\ idx' = idx + 1
                  /\ UNCHANGED <<exc, failed_at, pc>>
  /\ UNCHANGED <<main_result, return_value, test_completed, stdout, results_before,
                 results_file, results_content, before_sizes, after_sizes, growth>>
  /\ UNCHANGED rvars

\* After the loop: growth['status_code'] = ...; growth['summary'] = ...; return growth
ReturnGrowth ==
  /\ pc = "loop"
  /\ idx > Len(before_sizes)
  /\ growth' = <<Report(growth_compressed, growth_uncompressed, status_code, summary)>>
  /\ pc' = Following("compute")
  /\ UNCHANGED <<main_result, return_value, test_completed, exc, failed_at, stdout,
                 results_before, results_file, results_content, before_sizes,
                 after_sizes, growth_compressed, growth_uncompressed, status_code,
                 summary, idx>>
  /\ UNCHANGED rvars

-----------------------------------------------------------------------------
(* binary_size_differ.py: the rest of main's try statement *)

\* test_completed = True
MarkCompleted ==
  /\ pc = "mark_completed"
  /\ test_completed' = TRUE
  /\ pc' = Following("mark_completed")
  /\ UNCHANGED <<main_result, return_value, exc, failed_at, stdout,
                 results_before, results_file, results_content, before_sizes,
                 after_sizes, growth_compressed, growth_uncompressed, status_code,
                 summary, idx, growth>>
  /\ UNCHANGED rvars

\* with open(args.results_path, 'wt') as results_file: creates or truncates
OpenResults ==
  /\ pc = "open"
  /\ \/ /\ Throw("open", "OSError")
        /\ UNCHANGED results_file
     \/ /\ results_file' = "empty"
        /\ pc' = Following("open")
        /\ UNCHANGED <<exc, failed_at>>
  /\ UNCHANGED <<main_result, return_value, test_completed, stdout,
                 results_before, results_content, before_sizes,
                 after_sizes, growth_compressed, growth_uncompressed, status_code,
                 summary, idx, growth>>
  /\ UNCHANGED rvars

\* json.dump(growth, results_file)
DumpResults ==
  /\ pc = "dump"
  /\ \/ /\ \E written \in {"empty", "partial"} : results_file' = written
        /\ Throw("dump", "OSError")
        /\ UNCHANGED results_content
     \/ /\ results_file' = "complete"
        /\ results_content' = growth
        /\ pc' = Following("dump")
        /\ UNCHANGED <<exc, failed_at>>
  /\ UNCHANGED <<main_result, return_value, test_completed, stdout,
                 results_before, before_sizes,
                 after_sizes, growth_compressed, growth_uncompressed, status_code,
                 summary, idx, growth>>
  /\ UNCHANGED rvars

\* except: traceback.print_tb(trace); print(str(value))
Except ==
  /\ pc = "except"
  /\ stdout' = Append(stdout, exc)
  /\ exc' = ""
  /\ pc' = "finally"
  /\ UNCHANGED <<main_result, return_value, test_completed, failed_at,
                 results_before, results_file, results_content, before_sizes,
                 after_sizes, growth_compressed, growth_uncompressed, status_code,
                 summary, idx, growth>>
  /\ UNCHANGED rvars

\* finally: return 0 if test_completed else 1
Finally ==
  /\ pc = "finally"
  /\ main_result' = "returned"
  /\ return_value' = ReturnValue(test_completed)
  /\ pc' = "done"
  /\ UNCHANGED <<test_completed, exc, failed_at, stdout,
                 results_before, results_file, results_content, before_sizes,
                 after_sizes, growth_compressed, growth_uncompressed, status_code,
                 summary, idx, growth>>
  /\ UNCHANGED rvars

-----------------------------------------------------------------------------
(* test_runner.py *)

\* Largest exit code RunPackage returns.
MaxExitCode == 2
ExitCodes == 0..MaxExitCode

DEFAULT_TEST_CONCURRENCY == 4
TEST_RESULT_PATH == "/data/test_summary.json"
TEST_FILTER_PATH == "/data/test_filter.txt"

\* The parsed command lines.  An option that was not given is None, modelled
\* by the falsy value of its type (0, "", << >>, FALSE).
ArgValues ==
  [single_process_tests         : BOOLEAN,
   test_launcher_bot_mode       : BOOLEAN,
   test_launcher_batch_limit    : {0, 5},
   test_launcher_jobs           : {0, 2},
   gtest_filter                 : {"", "Foo.*"},
   gtest_repeat                 : {"", "3"},
   test_launcher_retry_limit    : {"", "2"},
   gtest_break_on_failure       : BOOLEAN,
   test_launcher_summary_output : {"", "out.json"},
   child_arg                    : {<< >>, <<"--extra">>},
   child_args                   : {<< >>, <<"positional">>},
   target_cpu                   : {"x64", "arm64"},
   test_launcher_filter_file    : {"", "filter.txt"},
   enable_test_server           : BOOLEAN]

When(cond, items) == IF cond THEN items ELSE << >>

\* test_concurrency = args.test_launcher_jobs if args.test_launcher_jobs else 4
TestConcurrency(a) ==
  IF a.test_launcher_jobs # 0 THEN a.test_launcher_jobs ELSE DEFAULT_TEST_CONCURRENCY

\* child_args as built from the flags, before the deployment target exists
BuildChildArgs(a) ==
  <<"--test-launcher-retry-limit=0">>
  \o When(a.single_process_tests, <<"--single-process-tests">>)
  \o When(a.test_launcher_bot_mode, <<"--test-launcher-bot-mode">>)
  \o When(a.test_launcher_batch_limit # 0,
          <<"--test-launcher-batch-limit=" \o FormatD(a.test_launcher_batch_limit)>>)
  \o <<"--test-launcher-jobs=" \o FormatD(TestConcurrency(a))>>
  \o When(a.gtest_filter # "", <<"--gtest_filter=" \o a.gtest_filter>>)
  \o When(a.gtest_repeat # "",
          <<"--gtest_repeat=" \o a.gtest_repeat, "--test-launcher-timeout=-1">>)
  \o When(a.test_launcher_retry_limit # "",
          <<"--test-launcher-retry-limit=" \o a.test_launcher_retry_limit>>)
  \o When(a.gtest_break_on_failure, <<"--gtest_break_on_failure">>)
  \o When(a.test_launcher_summary_output # "",
          <<"--test-launcher-summary-output=" \o TEST_RESULT_PATH>>)
  \o a.child_arg
  \o a.child_args

\* require_kvm = args.test_launcher_bot_mode and args.target_cpu == 'x64'
RequireKvm(a) == a.test_launcher_bot_mode /\ a.target_cpu = "x64"

\* A call of a collaborator: whether it raised, and the value of interest
\* (RunPackage's return code, SetupTestServer's concurrency, require_kvm as 0/1).
Call(fn, raised, value) == [fn |-> fn, raised |-> raised, value |-> value]

\* Variant: the return code collapsed to pass/fail.
RunnerReturn_passFail(code) == IF code = 0 THEN 0 ELSE 1

\* return returncode
RunnerReturn(code) == code

\* An exception inside the with block: the target's __exit__ runs and the
\* exception leaves main.
Propagate(call) ==
  /\ calls' = calls \o <<call, Call("__exit__", FALSE, -1)>>
  /\ tr_result' = "raised"
  /\ tr_pc' = "done"

\* args = parser.parse_args(); ConfigureLogging(args); child_args = [...]
ParseArgs ==
  /\ tr_pc = "parse"
  /\ \E a \in ArgValues :
       /\ args' = a
       /\ child_args' = BuildChildArgs(a)
       /\ test_concurrency' = TestConcurrency(a)
  /\ tr_pc' = "get_target"
  /\ UNCHANGED <<test_server, returncode, calls, tr_result, tr_return>>
  /\ UNCHANGED dvars

\* with GetDeploymentTargetForArgs(args, require_kvm=require_kvm) as target
GetTarget ==
  /\ tr_pc = "get_target"
  /\ LET kvm == IF RequireKvm(args) THEN 1 ELSE 0
     IN  \/ /\ calls' = Append(calls, Call("GetDeploymentTargetForArgs", TRUE, kvm))
            /\ tr_result' = "raised"
            /\ tr_pc' = "done"
         \/ /\ calls' = Append(calls, Call("GetDeploymentTargetForArgs", FALSE, kvm))
            /\ tr_pc' = "start"
            /\ UNCHANGED tr_result
  /\ UNCHANGED <<args, child_args, test_concurrency, test_server, returncode, tr_return>>
  /\ UNCHANGED dvars

\* target.Start()
StartTarget ==
  /\ tr_pc = "start"
  /\ \/ Propagate(Call("Start", TRUE, -1))
     \/ /\ calls' = Append(calls, Call("Start", FALSE, -1))
        /\ tr_pc' = "filter_file"
        /\ UNCHANGED tr_result
  /\ UNCHANGED <<args, child_args, test_concurrency, test_server, returncode, tr_return>>
  /\ UNCHANGED dvars

\* if args.test_launcher_filter_file: target.PutFile(...); child_args.append(...)
PutFilterFile ==
  /\ tr_pc = "filter_file"
  /\ \/ /\ args.test_launcher_filter_file # ""
        /\ Propagate(Call("PutFile", TRUE, -1))
        /\ UNCHANGED child_args
     \/ /\ args.test_launcher_filter_file # ""
        /\ calls' = Append(calls, Call("PutFile", FALSE, -1))
        /\ child_args' =
             Append(child_args, "--test-launcher-filter-file=" \o TEST_FILTER_PATH)
        /\ tr_pc' = "setup_server"
        /\ UNCHANGED tr_result
     \/ /\ args.test_launcher_filter_file = ""
        /\ tr_pc' = "setup_server"
        /\ UNCHANGED <<calls, child_args, tr_result>>
  /\ UNCHANGED <<args, test_concurrency, test_server, returncode, tr_return>>
  /\ UNCHANGED dvars

\* test_server = None; if args.enable_test_server: test_server = SetupTestServer(...)
SetupServer ==
  /\ tr_pc = "setup_server"
  /\ \/ /\ args.enable_test_server
        /\ Propagate(Call("SetupTestServer", TRUE, test_concurrency))
        /\ test_server' = "None"
     \/ /\ args.enable_test_server
        /\ calls' = Append(calls, Call("SetupTestServer", FALSE, test_concurrency))
        /\ test_server' = "server"
        /\ tr_pc' = "run_package"
        /\ UNCHANGED tr_result
     \/ /\ ~args.enable_test_server
        /\ test_server' = "None"
        /\ tr_pc' = "run_package"
        /\ UNCHANGED <<calls, tr_result>>
  /\ UNCHANGED <<args, child_args, test_concurrency, returncode, tr_return>>
  /\ UNCHANGED dvars

\* run_package_args = RunPackageArgs.FromCommonArgs(args); returncode = RunPackage(...)
RunThePackage ==
  /\ tr_pc = "run_package"
  /\ \/ /\ Propagate(Call("RunPackage", TRUE, -1))
        /\ UNCHANGED returncode
     \/ /\ \E code \in ExitCodes :
             /\ calls' = Append(calls, Call("RunPackage", FALSE, code))
             /\ returncode' = code
        /\ tr_pc' = "stop_server"
        /\ UNCHANGED tr_result
  /\ UNCHANGED <<args, child_args, test_concurrency, test_server, tr_return>>
  /\ UNCHANGED dvars

\* if test_server: test_server.Stop()
StopServer ==
  /\ tr_pc = "stop_server"
  /\ \/ /\ test_server # "None"
        /\ Propagate(Call("Stop", TRUE, -1))
     \/ /\ test_server # "None"
        /\ calls' = Append(calls, Call("Stop", FALSE, -1))
        /\ tr_pc' = "get_file"
        /\ UNCHANGED tr_result
     \/ /\ test_server = "None"
        /\ tr_pc' = "get_file"
        /\ UNCHANGED <<calls, tr_result>>
  /\ UNCHANGED <<args, child_args, test_concurrency, test_server, returncode, tr_return>>
  /\ UNCHANGED dvars

\* if args.test_launcher_summary_output: target.GetFile(...)
GetSummary ==
  /\ tr_pc = "get_file"
  /\ \/ /\ args.test_launcher_summary_output # ""
        /\ Propagate(Call("GetFile", TRUE, -1))
     \/ /\ args.test_launcher_summary_output # ""
        /\ calls' = Append(calls, Call("GetFile", FALSE, -1))
        /\ tr_pc' = "return"
        /\ UNCHANGED tr_result
     \/ /\ args.test_launcher_summary_output = ""
        /\ tr_pc' = "return"
        /\ UNCHANGED <<calls, tr_result>>
  /\ UNCHANGED <<args, child_args, test_concurrency, test_server, returncode, tr_return>>
  /\ UNCHANGED dvars

\* return returncode, leaving the with block through the target's __exit__
ReturnCode ==
  /\ tr_pc = "return"
  /\ \/ /\ calls' = Append(calls, Call("__exit__", TRUE, -1))
        /\ tr_result' = "raised"
        /\ UNCHANGED tr_return
     \/ /\ calls' = Append(calls, Call("__exit__", FALSE, -1))
        /\ tr_result' = "returned"
        /\ tr_return' = RunnerReturn(returncode)
  /\ tr_pc' = "done"
  /\ UNCHANGED <<args, child_args, test_concurrency, test_server, returncode>>
  /\ UNCHANGED dvars

DifferInit ==
  /\ pc = "check_dirs"
  /\ main_result = "running"
  /\ return_value = -1
  /\ test_completed = FALSE
  /\ exc = ""
  /\ failed_at = ""
  /\ stdout = << >>
  /\ results_before \in {"absent", "old"}
  /\ results_file = results_before
  /\ results_content = << >>
  /\ before_sizes = << >>
  /\ after_sizes = EmptyMap
  /\ growth_compressed = EmptyMap
  /\ growth_uncompressed = EmptyMap
  /\ status_code = 0
  /\ summary = << >>
  /\ idx = 1
  /\ growth = << >>

RunnerIdle ==
  /\ tr_pc = "idle"
  /\ args = EmptyMap
  /\ child_args = << >>
  /\ test_concurrency = 0
  /\ test_server = "None"
  /\ returncode = -1
  /\ calls = << >>
  /\ tr_result = "running"
  /\ tr_return = -1

DifferIdle ==
  /\ pc = "idle"
  /\ main_result = "running"
  /\ return_value = -1
  /\ test_completed = FALSE
  /\ exc = ""
  /\ failed_at = ""
  /\ stdout = << >>
  /\ results_before = "absent"
  /\ results_file = "absent"
  /\ results_content = << >>
  /\ before_sizes = << >>
  /\ after_sizes = EmptyMap
  /\ growth_compressed = EmptyMap
  /\ growth_uncompressed = EmptyMap
  /\ status_code = 0
  /\ summary = << >>
  /\ idx = 1
  /\ growth = << >>

RunnerInit ==
  /\ tr_pc = "parse"
  /\ args = EmptyMap
  /\ child_args = << >>
  /\ test_concurrency = 0
  /\ test_server = "None"
  /\ returncode = -1
  /\ calls = << >>
  /\ tr_result = "running"
  /\ tr_return = -1

\* The size differ
Init == DifferInit /\ RunnerIdle

Next ==
  \/ CheckDirs
  \/ CheckBeforeFile
  \/ CheckAfterFile
  \/ ReadSizes
  \/ AssertKeys
  \/ LoopStep
  \/ ReturnGrowth
  \/ MarkCompleted
  \/ OpenResults
  \/ DumpResults
  \/ Except
  \/ Finally

Spec == Init /\ [][Next]_vars

\* The test runner
RunnerStart == DifferIdle /\ RunnerInit

RunnerNext ==
  \/ ParseArgs
  \/ GetTarget
  \/ StartTarget
  \/ PutFilterFile
  \/ SetupServer
  \/ RunThePackage
  \/ StopServer
  \/ GetSummary
  \/ ReturnCode

RunnerSpec == RunnerStart /\ [][RunnerNext]_vars

-----------------------------------------------------------------------------
(* Properties of ComputePackageDiffs *)

\* ComputePackageDiffs has returned its report.
Returned == growth # << >>
ReportOf == growth[1]

NameAt(i) == before_sizes[i].name
InputCompressedDelta(i) ==
  after_sizes[NameAt(i)].compressed - before_sizes[i].sizes.compressed
InputUncompressedDelta(i) ==
  after_sizes[NameAt(i)].uncompressed - before_sizes[i].sizes.uncompressed
Positions == 1..Len(before_sizes)
FailingPositions == {i \in Positions : InputCompressedDelta(i) >= 12288}

\* C1: the returned status_code is 1 exactly when some package's compressed
\* delta (after - before) is at least 12288 bytes, and 0 otherwise; uncompressed
\* deltas play no part.
C1_StatusIffOverLimit ==
  Returned =>
    /\ ReportOf.status_code = (IF FailingPositions # {} THEN 1 ELSE 0)
    /\ \A i \in Positions :
         /\ InputCompressedDelta(i) = 12288 => ReportOf.status_code = 1
         /\ (\A j \in Positions : InputCompressedDelta(j) <= 12287)
              => ReportOf.status_code = 0

\* A report with status 0 although one package grew by 12287 compressed bytes
\* and another grew by 20000 uncompressed bytes with compressed delta 0.
C1_Witness ==
  /\ Returned
  /\ ReportOf.status_code = 0
  /\ \E i, j \in Positions :
       /\ InputCompressedDelta(i) = 12287
       /\ InputCompressedDelta(j) = 0
       /\ InputUncompressedDelta(j) = 20000

HeaderLine == "Size check failed! The following package(s) are affected:"
NotALine == {HeaderLine, "<br>",
             "See the following document for more information about this trybot:",
             TRYBOT_DOC}
\* Positions of the summary's pieces that are neither header, trailer nor break.
LinePositions(s) == {k \in 1..Len(s) : s[k] \notin NotALine}
HeaderPositions(s) == {k \in 1..Len(s) : s[k] = HeaderLine}
FirstOf(S) == CHOOSE k \in S : \A m \in S : k <= m

\* C2: when some package fails the size check, the summary holds the header
\* exactly once, directly before the first failing-package line; when none
\* fails, the header is absent.
C2_HeaderOnceBeforeFirstFailure ==
  Returned =>
    LET s == ReportOf.summary
    IN  IF FailingPositions = {}
        THEN HeaderPositions(s) = {}
        ELSE /\ Cardinality(HeaderPositions(s)) = 1
             /\ LinePositions(s) # {}
             /\ LET k == FirstOf(LinePositions(s))
                IN  /\ k = 3
                    /\ s[1] = HeaderLine
                    /\ s[2] = "<br>"

\* C3: growth['compressed'] and growth['uncompressed'] are keyed by exactly the
\* package names of the before snapshot and hold after - before for each.
C3_GrowthIsAfterMinusBefore ==
  Returned =>
    /\ DOMAIN ReportOf.compressed = Keys(before_sizes)
    /\ DOMAIN ReportOf.uncompressed = Keys(before_sizes)
    /\ \A i \in Positions :
         /\ ReportOf.compressed[NameAt(i)] = InputCompressedDelta(i)
         /\ ReportOf.uncompressed[NameAt(i)] = InputUncompressedDelta(i)

\* A report over three packages recording a shrinkage and a growth.
C3_Witness ==
  /\ Returned
  /\ Len(before_sizes) = 3
  /\ \E i, j \in Positions :
       /\ ReportOf.compressed[NameAt(i)] = -1000
       /\ ReportOf.uncompressed[NameAt(i)] = -20000
       /\ ReportOf.compressed[NameAt(j)] = 12288
       /\ ReportOf.uncompressed[NameAt(j)] = 20000

\* The decimal text of the compressed deltas that reach the limit.
DeltaText(d) == CASE d = 12288 -> "12288" [] d = 13287 -> "13287"
ExpectedLine(i) ==
  "- " \o NameAt(i) \o " grew by " \o DeltaText(InputCompressedDelta(i)) \o " bytes"
RECURSIVE ExpectedLinesFrom(_)
ExpectedLinesFrom(i) ==
  IF i > Len(before_sizes) THEN << >>
  ELSE (IF InputCompressedDelta(i) >= 12288 THEN <<ExpectedLine(i)>> ELSE << >>)
       \o ExpectedLinesFrom(i + 1)
IsLine(piece) == piece \notin NotALine

\* C4: the summary holds one line '- <name> grew by <delta> bytes' for each
\* package whose compressed delta is at least 12288, in the order of the before
\* snapshot, and no such line for any other package.
C4_OneLinePerFailingPackage ==
  Returned =>
    LET s == ReportOf.summary
    IN  /\ SelectSeq(s, IsLine) = ExpectedLinesFrom(1)
        /\ \A k \in LinePositions(s) :
             /\ k < Len(s) /\ s[k + 1] = "<br>"
             /\ k = 1 \/ s[k - 1] = "<br>"
        /\ (\A i \in Positions : InputCompressedDelta(i) = 0)
             => LinePositions(s) = {}

\* Three packages of which the first and the last fail, the second does not.
C4_Witness ==
  /\ Returned
  /\ Len(before_sizes) = 3
  /\ InputCompressedDelta(1) = 12288
  /\ InputCompressedDelta(2) = 12287
  /\ InputCompressedDelta(3) = 13287
  /\ NameAt(1) = "pkgB"
  /\ SelectSeq(ReportOf.summary, IsLine)
       = <<"- pkgB grew by 12288 bytes",
           "- " \o NameAt(3) \o " grew by 13287 bytes">>

\* C5: when the package names of the two snapshots differ, the assertion
\* fails before any delta is computed and no report is ever returned.
C5_MismatchRaisesNoReport ==
  Keys(before_sizes) # DOMAIN after_sizes =>
    /\ growth = << >>
    /\ growth_compressed = EmptyMap
    /\ growth_uncompressed = EmptyMap
    /\ results_content = << >>
    /\ pc \in {"assert_keys", "except", "finally", "done"}
    /\ pc # "assert_keys" => failed_at = "assert"

\* A finished run whose after snapshot had every package of the before
\* snapshot and one more.
C5_Witness ==
  /\ pc = "done"
  /\ before_sizes # << >>
  /\ Keys(before_sizes) \subseteq DOMAIN after_sizes
  /\ Keys(before_sizes) # DOMAIN after_sizes
  /\ failed_at = "assert"
  /\ stdout = <<"AssertionError">>

-----------------------------------------------------------------------------
(* Properties of the size differ's main *)

BeforeTry == {"dirs", "before_file", "after_file"}
InCompute == {"read", "assert", "loop"}
InWrite == {"open", "dump"}

\* C6: main returns 0 only if the report was computed and written to the
\* results file; after any exception, also one raised while opening or
\* serializing, it returns 1.
C6_ZeroOnlyIfWritten ==
  main_result = "returned" =>
    /\ return_value = 0 =>
         /\ growth # << >>
         /\ results_file = "complete"
         /\ results_content = growth
    /\ failed_at # "" => return_value = 1

-----------------------------------------------------------------------------
(* Properties of the test runner's main *)

CallPositions(fn) == {i \in 1..Len(calls) : calls[i].fn = fn}
Succeeded(fn) == {i \in CallPositions(fn) : ~calls[i].raised}

\* C9: whenever main returns, it returns the exit code RunPackage returned,
\* whichever optional steps ran.
C9_ReturnsPackageExitCode ==
  tr_result = "returned" =>
    /\ Cardinality(CallPositions("RunPackage")) = 1
    /\ \A i \in CallPositions("RunPackage") :
         /\ ~calls[i].raised
         /\ tr_return = calls[i].value

\* main returned 2 after pushing a filter file, running a test server and
\* fetching the summary.
C9_Witness ==
  /\ tr_result = "returned"
  /\ tr_return = 2
  /\ Succeeded("PutFile") # {}
  /\ Succeeded("SetupTestServer") # {}
  /\ Succeeded("Stop") # {}
  /\ Succeeded("GetFile") # {}

\* C10: once the test server was started, Stop() is called before main
\* terminates, also when RunPackage raises; and Stop() is never called before
\* RunPackage has finished.
C10_ServerStoppedAfterRun ==
  /\ (tr_pc = "done" /\ Succeeded("SetupTestServer") # {})
       => CallPositions("Stop") # {}
  /\ \A j \in CallPositions("Stop") :
       \E k \in CallPositions("RunPackage") : k < j

====
